---- MODULE Spec2Model ----
(***************************************************************************)
(* State-machine model of the trading bot in src/a.py: the interactive     *)
(* menu, place_market_order, place_limit_order with clamp_price, and the    *)
(* auto_strategy polling loop.                                             *)
(*                                                                         *)
(* Units.  Prices are whole USDT.  TRADE_QTY is counted in units of 0.001  *)
(* BTC and the USDT balance in units of 0.001 USDT, so that                *)
(* (exit - entry) * TRADE_QTY is computed on integers exactly as the code  *)
(* computes it on floats.  Python's None is modelled by 0; every price the *)
(* exchange quotes is positive, so "not x" in the code is x = None here.   *)
(***************************************************************************)
EXTENDS Integers, Sequences, FiniteSets, TLC

\* ---- bounds of the model ------------------------------------------------
\* number of market orders, strategy starts and strategy ticks in one run
MaxOps == 4
\* number of distinct prices the exchange may quote
NumPrices == 3
\* largest limit price and price bound, in units of 0.005 USDT
MaxLimitPrice == 9
\* largest tick size, in units of 0.005 USDT
MaxTick == 4

\* ---- program constants --------------------------------------------------
None == 0
SIDE_BUY == "BUY"
SIDE_SELL == "SELL"
\* TRADE_QTY = 0.001 BTC, in units of 0.001 BTC
TRADE_QTY == 1
\* virtual_balance["USDT"] = 10000.0, in units of 0.001 USDT
InitialUSDT == 10000000
\* virtual_balance["BTC"] = 1.0, in units of 0.001 BTC
InitialBTC == 1000

\* The quotes are centred on 500 so that one unit is exactly 0.2 % of it.
Prices == 499 .. (498 + NumPrices)
\* what get_price() returns: a price, or None after a caught exception
Quotes == Prices \cup {None}

VARIABLES
    pc,                 \* control point of the single thread
    last_entry_price,   \* global: entry price, None when flat
    virtual_balance,    \* global: [USDT, BTC]
    start_price,        \* auto_strategy local: the reference price
    current,            \* auto_strategy local: price read this tick
    side,               \* place_market_order parameter
    caller,             \* who called place_market_order: "manual" or "auto"
    current_price,      \* place_market_order local: the quote
    inflight,           \* outcome the exchange gave the order in flight
    interrupted,        \* a KeyboardInterrupt has been raised in the loop
    ops,                \* history: market orders, strategy starts and ticks
    sent,               \* history: market orders issued so far
    lastOk,             \* history: side of the last create_order that returned
    call,               \* history: the latest place_market_order call
    tick,               \* history: the latest strategy tick
    lim                 \* history: the place_limit_order call just made

vars == <<pc, last_entry_price, virtual_balance, start_price, current, side,
          caller, current_price, inflight, interrupted, ops, sent, lastOk,
          call, tick, lim>>

\* control points inside the while loop of auto_strategy (lines 137-162),
\* the calls it makes included
InLoop ==
    \/ pc \in {"sleep", "buy_post", "sell_post"}
    \/ (pc = "pmo_order" /\ caller = "auto")

NoCall == [side |-> "NONE", by |-> "none", entry0 |-> None, usdt0 |-> 0,
           quote |-> None, exch |-> "none", outcome |-> "none"]
NoTick == [entry0 |-> None, usdt0 |-> 0, ref0 |-> None, sent0 |-> 0,
           price |-> None, attempt |-> "NONE", prevAtt |-> "NONE",
           skips |-> 0, done |-> FALSE, stopped |-> FALSE]

NoLimit == [side |-> "NONE", fetch |-> "none", filters |-> <<>>,
            user |-> 0, rounded |-> 0, valid |-> 0, price |-> 0,
            timeInForce |-> "none", outcome |-> "none", entry0 |-> None,
            usdt0 |-> 0, ref0 |-> None]

\* ---- pure helpers -------------------------------------------------------
\* Python truthiness of a price-or-None value
Truthy(x) == x # None

\* line 144: change = ((current - start_price) / start_price) * 100, and the
\* comparisons of lines 147 and 152 against -0.2 and 0.2, on integers:
\* change <= -0.2  <=>  (current - start) * 500 <= -start
ChangeLeMinus02(cur, start) == (cur - start) * 500 <= -start
\* variant: the exit comparison made strict
ChangeGt02(cur, start) == (cur - start) * 500 > start
ChangeGe02(cur, start) == (cur - start) * 500 >= start

\* line 147: change <= -0.2 and not last_entry_price
EntrySignal(cur, start, lep) == ChangeLeMinus02(cur, start) /\ ~Truthy(lep)
\* line 152 (an elif): change >= 0.2 and last_entry_price
ExitSignal(cur, start, lep) ==
    ~EntrySignal(cur, start, lep) /\ ChangeGe02(cur, start) /\ Truthy(lep)

\* variant: the operands of the subtraction swapped
PnlReversed(price, entry) == (entry - price) * TRADE_QTY
\* lines 91 and 155: pnl = (price - last_entry_price) * TRADE_QTY
Pnl(price, entry) == (price - entry) * TRADE_QTY

\* where place_market_order returns to
ReturnPc ==
    IF caller = "manual" THEN "menu"
    ELSE IF side = SIDE_BUY THEN "buy_post" ELSE "sell_post"

Init ==
    /\ pc = "menu"
    /\ last_entry_price = None
    /\ virtual_balance = [USDT |-> InitialUSDT, BTC |-> InitialBTC]
    /\ start_price = None
    /\ current = None
    /\ side = "NONE"
    /\ caller = "none"
    /\ current_price = None
    /\ inflight = "none"
    /\ interrupted = FALSE
    /\ ops = 0
    /\ sent = 0
    /\ lastOk = "NONE"
    /\ call = NoCall
    /\ tick = NoTick
    /\ lim = NoLimit

\* ---- place_market_order -------------------------------------------------
\* lines 72-83: current_price = get_price(); return if it is unavailable,
\* otherwise issue client.create_order, which the exchange fills or rejects.
\* s and by are the side and the caller of the call being entered.
EnterMarketOrder(s, by) ==
    /\ side' = s
    /\ caller' = by
    /\ \E q \in Quotes :
        IF ~Truthy(q)
        THEN /\ pc' = IF by = "manual" THEN "menu"
                      ELSE IF s = SIDE_BUY THEN "buy_post" ELSE "sell_post"
             /\ current_price' = None
             /\ inflight' = "none"
             /\ sent' = sent
             /\ call' = [side |-> s, by |-> by, entry0 |-> last_entry_price,
                         usdt0 |-> virtual_balance.USDT, quote |-> None,
                         exch |-> "none", outcome |-> "noquote"]
        ELSE /\ pc' = "pmo_order"
             /\ current_price' = q
             /\ sent' = sent + 1
             /\ \E res \in {"filled", "rejected"} :
                  /\ inflight' = res
                  /\ call' = [side |-> s, by |-> by,
                              entry0 |-> last_entry_price,
                              usdt0 |-> virtual_balance.USDT, quote |-> q,
                              exch |-> res, outcome |-> "pending"]

\* lines 84-98: create_order returns; on success the position is updated,
\* on an exception the failure is printed and logged.
OrderReturn ==
    /\ pc = "pmo_order"
    /\ ~interrupted
    /\ pc' = ReturnPc
    /\ inflight' = "none"
    /\ IF inflight = "filled"
       THEN /\ lastOk' = side
            /\ call' = [call EXCEPT !.outcome = "filled"]
            /\ IF side = SIDE_BUY
               THEN /\ last_entry_price' = current_price
                    /\ UNCHANGED virtual_balance
               ELSE IF Truthy(last_entry_price)
                    THEN /\ virtual_balance' =
                              [virtual_balance EXCEPT !.USDT =
                                  @ + Pnl(current_price, last_entry_price)]
                         /\ last_entry_price' = None
                    ELSE UNCHANGED <<last_entry_price, virtual_balance>>
       ELSE /\ call' = [call EXCEPT !.outcome = "failed"]
            /\ UNCHANGED <<lastOk, last_entry_price, virtual_balance>>
    /\ UNCHANGED <<start_price, current, side, caller, current_price,
                   interrupted, ops, sent, tick, lim>>

\* ---- place_limit_order --------------------------------------------------
\* Limit prices, tick sizes and price bounds are integers counted in units of
\* 0.005 USDT, so that a tick size of 1 is finer than one cent (2 units).

\* what client.get_symbol_info may report as the PRICE_FILTER of the symbol
FilterSpace ==
    {f \in [tickSize : 1 .. MaxTick, minPrice : 1 .. MaxLimitPrice,
            maxPrice : 1 .. MaxLimitPrice] : f.minPrice <= f.maxPrice}
\* what the operator may type at line 107
UserPrices == (0 - MaxTick) .. (MaxLimitPrice + MaxTick)

\* variant: round half away from zero
RoundHalfAway(n, d) ==
    LET q == n \div d
        r == n - q * d
    IN  IF 2 * r < d THEN q
        ELSE IF 2 * r > d THEN q + 1
        ELSE IF q >= 0 THEN q + 1 ELSE q

\* line 65: Python 3 round(n / d) for d > 0: to the nearest integer, a tie
\* to the even one
Round(n, d) ==
    LET q == n \div d
        r == n - q * d
    IN  IF 2 * r < d THEN q
        ELSE IF 2 * r > d THEN q + 1
        ELSE IF q % 2 = 0 THEN q ELSE q + 1

\* variant: half a tick added before rounding
RoundToTickNudged(price, tick_size) ==
    Round(2 * price + tick_size, 2 * tick_size) * tick_size
\* line 65: price = round(price / tick_size) * tick_size
RoundToTick(price, tick_size) == Round(price, tick_size) * tick_size

PyMin(a, b) == IF b < a THEN b ELSE a
PyMax(a, b) == IF b > a THEN b ELSE a

\* variant: the lower bound is not applied
clamp_priceNoFloor(price, filters) ==
    PyMin(RoundToTick(price, filters.tickSize), filters.maxPrice)
\* lines 58-66
clamp_price(price, filters) ==
    LET tick_size == filters.tickSize
        min_price == filters.minPrice
        max_price == filters.maxPrice
    IN  PyMax(PyMin(RoundToTick(price, tick_size), max_price), min_price)

\* one cent in units of 0.005 USDT
Cent == 2
\* line 119: f"{valid_price:.2f}" gives the nearest whole cent; which
\* neighbour a value halfway between two cents goes to depends on the binary
\* expansion of the float, so both are possible.
Format2f(v) ==
    LET lo == (v \div Cent) * Cent
    IN  IF v = lo THEN {v}
        ELSE IF 2 * (v - lo) < Cent THEN {lo}
        ELSE IF 2 * (v - lo) > Cent THEN {lo + Cent}
        ELSE {lo, lo + Cent}

\* variant: a placed limit order is tracked like a market fill
place_limit_orderTracked(s, fetched, f, p, res) ==
    /\ pc = "menu"
    /\ fetched
    /\ pc' = "menu"
    /\ \E sp \in Format2f(clamp_price(p, f)) :
         /\ lim' = [side |-> s, fetch |-> "ok", filters |-> f,
                    user |-> p, rounded |-> RoundToTick(p, f.tickSize),
                    valid |-> clamp_price(p, f), price |-> sp,
                    timeInForce |-> "GTC", outcome |-> res,
                    entry0 |-> last_entry_price,
                    usdt0 |-> virtual_balance.USDT, ref0 |-> start_price]
         /\ last_entry_price' =
              IF res # "placed" THEN last_entry_price
              ELSE IF s = SIDE_BUY THEN sp ELSE None
    /\ UNCHANGED <<virtual_balance, start_price, current, side, caller,
                   current_price, inflight, interrupted, ops, sent, lastOk,
                   call, tick>>

\* lines 101-126.  fetched: get_price_filters returned (it has no handler, so
\* an exception of client.get_symbol_info leaves place_limit_order and main);
\* f: the PRICE_FILTER it returned; p: the price typed; res: what the
\* exchange did with the order.  The quote of line 103 is only printed.
place_limit_order(s, fetched, f, p, res) ==
    /\ pc = "menu"
    /\ IF ~fetched
       THEN /\ pc' = "crashed"
            /\ lim' = [NoLimit EXCEPT !.side = s, !.fetch = "raised",
                           !.entry0 = last_entry_price,
                           !.usdt0 = virtual_balance.USDT,
                           !.ref0 = start_price]
       ELSE /\ pc' = "menu"
            /\ \E sp \in Format2f(clamp_price(p, f)) :
                 lim' = [side |-> s, fetch |-> "ok", filters |-> f,
                         user |-> p, rounded |-> RoundToTick(p, f.tickSize),
                         valid |-> clamp_price(p, f), price |-> sp,
                         timeInForce |-> "GTC", outcome |-> res,
                         entry0 |-> last_entry_price,
                         usdt0 |-> virtual_balance.USDT,
                         ref0 |-> start_price]
    /\ UNCHANGED <<last_entry_price, virtual_balance, start_price, current,
                   side, caller, current_price, inflight, interrupted, ops,
                   sent, lastOk, call, tick>>

\* ---- main ---------------------------------------------------------------
\* the symbol constraints and typed prices explored together with the
\* strategy; LimitSpec below explores all of FilterSpace and UserPrices
MenuFilters == {f \in FilterSpace :
                  f.tickSize = 2 /\ f.minPrice = 2 /\ f.maxPrice = 8}
MenuUserPrices == {5}

\* lines 184-187: choices 3 and 4 call place_limit_order
MenuLimitOrder(s, F, P) ==
    \E fetched \in BOOLEAN, f \in F, p \in P, res \in {"placed", "rejected"} :
        place_limit_order(s, fetched, f, p, res)

\* lines 180-183: choices 1 and 2 call place_market_order
MenuMarketOrder(s) ==
    /\ pc = "menu"
    /\ ops < MaxOps
    /\ ops' = ops + 1
    /\ EnterMarketOrder(s, "manual")
    /\ lim' = NoLimit
    /\ UNCHANGED <<last_entry_price, virtual_balance, start_price, current,
                   interrupted, lastOk, tick>>

\* lines 190-192: choice 6 leaves the menu loop
MenuExit ==
    /\ pc = "menu"
    /\ pc' = "exited"
    /\ lim' = NoLimit
    /\ UNCHANGED <<last_entry_price, virtual_balance, start_price, current,
                   side, caller, current_price, inflight, interrupted, ops,
                   sent, lastOk, call, tick>>

\* ---- auto_strategy ------------------------------------------------------
\* lines 131-136: choice 5; the loop starts only with a readable price
AutoStart ==
    /\ pc = "menu"
    /\ ops < MaxOps
    /\ ops' = ops + 1
    /\ \E q \in Quotes :
        IF ~Truthy(q)
        THEN UNCHANGED <<pc, start_price>>
        ELSE pc' = "sleep" /\ start_price' = q
    /\ tick' = NoTick
    /\ lim' = NoLimit
    /\ UNCHANGED <<last_entry_price, virtual_balance, current, side, caller,
                   current_price, inflight, interrupted, sent, lastOk, call>>

\* variant: an unreadable price resets the reference to the last price read
SkipTickResetsRef ==
    /\ pc' = "sleep"
    /\ start_price' = current
    /\ UNCHANGED <<last_entry_price, virtual_balance, current, side, caller,
                   current_price, inflight, sent, call>>

\* lines 141-142: the price is unreadable, the tick is skipped
SkipTick ==
    /\ pc' = "sleep"
    /\ UNCHANGED <<last_entry_price, virtual_balance, start_price, current,
                   side, caller, current_price, inflight, sent, call>>

\* the history record of a tick whose price q was read (None: unreadable)
TickRecord(q, att) ==
    IF ~Truthy(q) /\ tick.done /\ ~Truthy(tick.price)
    THEN [tick EXCEPT !.skips = @ + 1]
    ELSE [entry0 |-> last_entry_price, usdt0 |-> virtual_balance.USDT,
          ref0 |-> start_price, sent0 |-> sent, price |-> q,
          attempt |-> att,
          prevAtt |-> IF tick.attempt # "NONE" THEN tick.attempt
                      ELSE tick.prevAtt,
          skips |-> IF Truthy(q) THEN 0 ELSE 1,
          done |-> (att = "NONE"), stopped |-> FALSE]

\* lines 139-154: one tick up to the call of place_market_order
Tick ==
    /\ pc = "sleep"
    /\ ~interrupted
    /\ ops < MaxOps
    /\ ops' = ops + 1
    /\ \E q \in Quotes :
        IF ~Truthy(q)
        THEN SkipTick /\ tick' = TickRecord(q, "NONE")
        ELSE /\ current' = q
             /\ IF EntrySignal(q, start_price, last_entry_price)
                THEN /\ EnterMarketOrder(SIDE_BUY, "auto")
                     /\ tick' = TickRecord(q, SIDE_BUY)
                ELSE IF ExitSignal(q, start_price, last_entry_price)
                THEN /\ EnterMarketOrder(SIDE_SELL, "auto")
                     /\ tick' = TickRecord(q, SIDE_SELL)
                ELSE /\ pc' = "sleep"
                     /\ tick' = TickRecord(q, "NONE")
                     /\ UNCHANGED <<side, caller, current_price, inflight,
                                    sent, call>>
             /\ UNCHANGED <<last_entry_price, virtual_balance, start_price>>
    /\ UNCHANGED <<interrupted, lastOk, lim>>

\* variant: the entry is recorded only when the order went through
BuyPostOnFill ==
    /\ pc = "buy_post"
    /\ ~interrupted
    /\ last_entry_price' =
         IF call.outcome = "filled" THEN current ELSE last_entry_price
    /\ pc' = "sleep"
    /\ tick' = [tick EXCEPT !.done = TRUE]
    /\ UNCHANGED <<virtual_balance, start_price, current, side, caller,
                   current_price, inflight, interrupted, ops, sent, lastOk,
                   call, lim>>

\* line 150: after place_market_order(SIDE_BUY) returned
BuyPost ==
    /\ pc = "buy_post"
    /\ ~interrupted
    /\ last_entry_price' = current
    /\ pc' = "sleep"
    /\ tick' = [tick EXCEPT !.done = TRUE]
    /\ UNCHANGED <<virtual_balance, start_price, current, side, caller,
                   current_price, inflight, interrupted, ops, sent, lastOk,
                   call, lim>>

\* lines 155-158: after place_market_order(SIDE_SELL) returned.  With
\* last_entry_price None, line 155 raises TypeError, which neither the loop
\* nor main catches.
SellPost ==
    /\ pc = "sell_post"
    /\ ~interrupted
    /\ IF Truthy(last_entry_price)
       THEN /\ virtual_balance' =
                 [virtual_balance EXCEPT !.USDT =
                     @ + Pnl(current, last_entry_price)]
            /\ last_entry_price' = None
            /\ pc' = "sleep"
       ELSE /\ pc' = "crashed"
            /\ UNCHANGED <<last_entry_price, virtual_balance>>
    /\ tick' = [tick EXCEPT !.done = TRUE]
    /\ UNCHANGED <<start_price, current, side, caller, current_price,
                   inflight, interrupted, ops, sent, lastOk, call, lim>>

\* Ctrl-C while the loop runs: KeyboardInterrupt is raised at the current
\* control point; neither get_price nor place_market_order catches it
\* (they catch Exception only).
RaiseKeyboardInterrupt ==
    /\ InLoop
    /\ ~interrupted
    /\ interrupted' = TRUE
    /\ UNCHANGED <<pc, last_entry_price, virtual_balance, start_price,
                   current, side, caller, current_price, inflight, ops, sent,
                   lastOk, call, tick, lim>>

\* variant: the handler forgets the open position when the loop stops
ExceptKeyboardInterruptFlattens ==
    /\ interrupted
    /\ pc' = "menu"
    /\ interrupted' = FALSE
    /\ inflight' = "none"
    /\ last_entry_price' = None
    /\ tick' = [tick EXCEPT !.stopped = TRUE]
    /\ UNCHANGED <<virtual_balance, start_price, current, side, caller,
                   current_price, ops, sent, lastOk, call, lim>>

\* lines 160-162: the loop's handler prints and breaks; main shows the menu
ExceptKeyboardInterrupt ==
    /\ interrupted
    /\ pc' = "menu"
    /\ interrupted' = FALSE
    /\ inflight' = "none"
    /\ tick' = [tick EXCEPT !.stopped = TRUE]
    /\ UNCHANGED <<last_entry_price, virtual_balance, start_price, current,
                   side, caller, current_price, ops, sent, lastOk, call, lim>>

Next ==
    \/ \E s \in {SIDE_BUY, SIDE_SELL} : MenuMarketOrder(s)
    \/ \E s \in {SIDE_BUY, SIDE_SELL} :
          MenuLimitOrder(s, MenuFilters, MenuUserPrices)
    \/ MenuExit
    \/ AutoStart
    \/ Tick
    \/ OrderReturn
    \/ BuyPost
    \/ SellPost
    \/ RaiseKeyboardInterrupt
    \/ ExceptKeyboardInterrupt

Spec == Init /\ [][Next]_vars

\* the interpreter always runs the handler of a raised exception
FairSpec == Spec /\ WF_vars(ExceptKeyboardInterrupt)

\* One limit order from the fresh menu, over every symbol constraint and
\* every typed price: the initial state holds the constraint the exchange
\* will report and the price the operator will type.
LimitInit ==
    /\ pc = "menu"
    /\ last_entry_price = None
    /\ virtual_balance = [USDT |-> InitialUSDT, BTC |-> InitialBTC]
    /\ start_price = None
    /\ current = None
    /\ side = "NONE"
    /\ caller = "none"
    /\ current_price = None
    /\ inflight = "none"
    /\ interrupted = FALSE
    /\ ops = 0
    /\ sent = 0
    /\ lastOk = "NONE"
    /\ call = NoCall
    /\ tick = NoTick
    /\ \E f \in FilterSpace, p \in UserPrices :
          lim = [NoLimit EXCEPT !.filters = f, !.user = p]

LimitNext ==
    /\ lim.fetch = "none"
    /\ \E s \in {SIDE_BUY, SIDE_SELL} :
          MenuLimitOrder(s, {lim.filters}, {lim.user})

LimitSpec == LimitInit /\ [][LimitNext]_vars

\* ---- the claims ---------------------------------------------------------
\* the strategy loop is running (its own lines or a call it made)
Running == InLoop
\* the latest tick is complete and the loop waits for the next one
TickOver == pc = "sleep" /\ tick.done
\* the order of the latest place_market_order call did not go through
OrderFailed == call.outcome \in {"noquote", "failed"}

\* C1: after a tick in which the position was Flat, the entry threshold was
\* met and the market Buy failed, the position is still Flat and the
\* reference price is the one the tick started with.
C1_FailedEntryLeavesFlat ==
    (TickOver /\ tick.attempt = SIDE_BUY /\ OrderFailed)
        => (last_entry_price = None /\ start_price = tick.ref0)

\* C2: after a tick in which the position was Long, the exit threshold was
\* met and the market Sell failed, the position is still Long at the same
\* entry price, and the USDT balance and the reference price are unchanged.
C2_FailedExitLeavesLong ==
    (TickOver /\ tick.attempt = SIDE_SELL /\ OrderFailed)
        => /\ last_entry_price = tick.entry0
           /\ virtual_balance.USDT = tick.usdt0
           /\ start_price = tick.ref0

\* C3: the position is Long iff the most recent market order that
\* create_order confirmed was a Buy, and the position changes only in a step
\* in which create_order returned success.
C3_PositionTracksFills ==
    /\ [](Truthy(last_entry_price) <=> (lastOk = SIDE_BUY))
    /\ [][(last_entry_price' # last_entry_price)
            => (call.outcome = "pending" /\ call'.outcome = "filled")]_vars

\* C4: after a completed transition of the strategy (an order that filled,
\* entry or exit) the reference price equals the price of that tick.
C4_ReferenceReset ==
    (tick.done /\ pc \in {"sleep", "crashed"} /\ tick.attempt # "NONE"
        /\ call.outcome = "filled")
        => start_price = tick.price

\* C5: after any number of consecutive ticks whose price was unreadable, no
\* order has been sent and the position, the entry price, the reference price
\* and the USDT balance are what they were before the first of them.
C5_SkippedTickChangesNothing ==
    (TickOver /\ ~Truthy(tick.price))
        => /\ last_entry_price = tick.entry0
           /\ virtual_balance.USDT = tick.usdt0
           /\ start_price = tick.ref0
           /\ sent = tick.sent0

\* unreadable ticks in a row while Long
C5_Witness ==
    /\ TickOver
    /\ ~Truthy(tick.price)
    /\ tick.skips >= 2
    /\ Truthy(last_entry_price)

\* C6: a filled Sell of a position entered at E, quoted at X, raises the USDT
\* balance by exactly (X - E) * TRADE_QTY, once, whoever asked for the Sell.
C6_ExitPnlOnce ==
    (call.side = SIDE_SELL /\ call.outcome = "filled" /\ Truthy(call.entry0))
        => virtual_balance.USDT
             = call.usdt0 + (call.quote - call.entry0) * TRADE_QTY

\* a Sell of the strategy filled at a quote other than the entry price, and
\* the strategy's own code after the call has run
C6_Witness ==
    /\ call.side = SIDE_SELL
    /\ call.by = "auto"
    /\ call.outcome = "filled"
    /\ call.quote # call.entry0
    /\ tick.done

\* C7: a tick with a readable price asks for a market Buy iff the position is
\* Flat and (price - ref) / ref <= -0.2 %, for a market Sell iff the position
\* is Long and (price - ref) / ref >= 0.2 %, and otherwise changes nothing
\* and sends no order.
C7_ThresholdPerTick ==
    Truthy(tick.price) =>
        /\ (tick.attempt = SIDE_BUY) <=>
              (~Truthy(tick.entry0)
                 /\ (tick.price - tick.ref0) * 1000 <= -2 * tick.ref0)
        /\ (tick.attempt = SIDE_SELL) <=>
              (Truthy(tick.entry0)
                 /\ (tick.price - tick.ref0) * 1000 >= 2 * tick.ref0)
        /\ (tick.attempt = "NONE" /\ pc = "sleep") =>
              /\ last_entry_price = tick.entry0
              /\ virtual_balance.USDT = tick.usdt0
              /\ start_price = tick.ref0
              /\ sent = tick.sent0

\* a Sell asked for at a move of exactly +0.2 %
C7_Witness ==
    /\ Truthy(tick.price)
    /\ tick.attempt = SIDE_SELL
    /\ (tick.price - tick.ref0) * 1000 = 2 * tick.ref0

\* C8: a manual Sell while Flat changes neither the position nor the USDT
\* balance, and a manual Buy while Long is rejected and leaves the entry price
\* as it was.
C8_TransitionGating ==
    (pc = "menu" /\ call.by = "manual") =>
        /\ (call.side = SIDE_SELL /\ ~Truthy(call.entry0)) =>
              /\ last_entry_price = None
              /\ virtual_balance.USDT = call.usdt0
        /\ (call.side = SIDE_BUY /\ Truthy(call.entry0)) =>
              last_entry_price = call.entry0

\* C9: the running loop is left only through a raised stop signal.
C9_LoopPersists ==
    [][(Running /\ ~Running') => interrupted]_vars

\* C10: once the stop signal is raised in the running loop, the loop exits,
\* and exiting sends no order and leaves the position, the entry price and
\* the USDT balance alone.
C10_StopExitsCleanly ==
    /\ interrupted ~> (pc = "menu")
    /\ [][interrupted =>
            /\ pc' = "menu"
            /\ sent' = sent
            /\ last_entry_price' = last_entry_price
            /\ virtual_balance' = virtual_balance]_vars

\* the loop was stopped with the Long it opened still open
C10_Witness ==
    /\ pc = "menu"
    /\ tick.stopped
    /\ tick.attempt = SIDE_BUY
    /\ Truthy(last_entry_price)

\* the symbol's price bounds are themselves multiples of its tick size
Aligned(f) ==
    /\ f.minPrice % f.tickSize = 0
    /\ f.maxPrice % f.tickSize = 0
\* v is a multiple of the tick size t (v may be negative)
MultipleOf(v, t) == (v \div t) * t = v
Abs(x) == IF x < 0 THEN 0 - x ELSE x
\* a place_limit_order call got its filters and went on to the order
Clamped == lim.fetch = "ok"

\* C11: a limit order whose constraint fetch fails sends no order, changes
\* neither position nor USDT balance and returns to the menu; so does one whose
\* order the exchange rejects.
C11_LimitFailureContained ==
    /\ (lim.fetch = "raised") =>
          /\ pc = "menu"
          /\ lim.price = 0
          /\ last_entry_price = lim.entry0
          /\ virtual_balance.USDT = lim.usdt0
    /\ (lim.outcome = "rejected") =>
          /\ pc = "menu"
          /\ last_entry_price = lim.entry0
          /\ virtual_balance.USDT = lim.usdt0

\* C12 as stated: for every price and every constraints with tickSize > 0 and
\* minPrice <= maxPrice, the clamped price lies in [minPrice, maxPrice] and is
\* a multiple of tickSize.
C12_ClampBounded ==
    Clamped =>
        /\ lim.filters.minPrice <= lim.valid
        /\ lim.valid <= lim.filters.maxPrice
        /\ MultipleOf(lim.valid, lim.filters.tickSize)

\* C12 as amended: the clamped price always lies in [minPrice, maxPrice], and
\* is a multiple of tickSize whenever minPrice and maxPrice are.
C12_ClampBoundedAligned ==
    Clamped =>
        /\ lim.filters.minPrice <= lim.valid
        /\ lim.valid <= lim.filters.maxPrice
        /\ Aligned(lim.filters) =>
              MultipleOf(lim.valid, lim.filters.tickSize)

\* a price rounded beyond the upper bound of aligned constraints, clipped
C12_Witness ==
    /\ Clamped
    /\ Aligned(lim.filters)
    /\ lim.filters.tickSize > 1
    /\ lim.rounded > lim.filters.maxPrice
    /\ lim.valid = lim.filters.maxPrice

\* C13 as stated: clamping a clamped price changes nothing, for every
\* constraints with tickSize > 0 and minPrice <= maxPrice.
C13_ClampIdempotent ==
    Clamped => clamp_price(lim.valid, lim.filters) = lim.valid

\* C13 as amended: clamping a clamped price changes nothing when minPrice and
\* maxPrice are multiples of tickSize.
C13_ClampIdempotentAligned ==
    (Clamped /\ Aligned(lim.filters))
        => clamp_price(lim.valid, lim.filters) = lim.valid

\* aligned constraints under which the first clamp moved the price
C13_Witness ==
    /\ Clamped
    /\ Aligned(lim.filters)
    /\ lim.filters.tickSize > 1
    /\ lim.valid # lim.user
    /\ lim.valid = lim.rounded

\* the price after line 65 is a multiple of the tick size nearest to the
\* typed price, and the returned price is that multiple clipped
RoundsToNearest ==
    /\ MultipleOf(lim.rounded, lim.filters.tickSize)
    /\ 2 * Abs(lim.rounded - lim.user) <= lim.filters.tickSize
    /\ lim.valid = PyMax(PyMin(lim.rounded, lim.filters.maxPrice),
                         lim.filters.minPrice)
\* the typed price is exactly halfway between two multiples of the tick size
Tie == 2 * Abs(lim.rounded - lim.user) = lim.filters.tickSize

\* C14 as stated: the price is rounded to the nearest multiple of tickSize, a
\* tie going to the multiple of greater magnitude, then clipped.
C14_RoundsHalfAwayFromZero ==
    Clamped =>
        /\ RoundsToNearest
        /\ Tie => Abs(lim.rounded) > Abs(lim.user)

\* C14 as amended: the price is rounded to the nearest multiple of tickSize, a
\* tie going to the multiple whose quotient by tickSize is even, then clipped.
C14_RoundsHalfToEven ==
    Clamped =>
        /\ RoundsToNearest
        /\ Tie => (lim.rounded \div lim.filters.tickSize) % 2 = 0

\* a tie that went to the multiple of smaller magnitude
C14_Witness ==
    /\ Clamped
    /\ Tie
    /\ Abs(lim.rounded) < Abs(lim.user)

\* C15: once an order of the strategy that the exchange filled is no longer
\* in flight, its outcome has been applied, whether or not the loop was
\* stopped meanwhile.
C15_InFlightOrderApplied ==
    (call.by = "auto" /\ call.exch = "filled" /\ pc # "pmo_order")
        => call.outcome = "filled"

\* C16: after a market Buy that filled, manual or of the strategy, the entry
\* price is the quote place_market_order fetched before submitting it.
C16_EntryIsQuote ==
    (call.side = SIDE_BUY /\ call.outcome = "filled"
        /\ pc \notin {"pmo_order", "buy_post"})
        => last_entry_price = call.quote

\* C17: the price sent with a limit order is the clamped price, with
\* time-in-force GTC.
C17_SubmitsClampedPrice ==
    Clamped =>
        /\ lim.valid = clamp_price(lim.user, lim.filters)
        /\ lim.price = lim.valid
        /\ lim.timeInForce = "GTC"

\* C18: after a limit order, placed, rejected or aborted, the entry price,
\* the USDT balance and the reference price are what they were before it.
C18_LimitOrderFrame ==
    (lim.side # "NONE") =>
        /\ last_entry_price = lim.entry0
        /\ virtual_balance.USDT = lim.usdt0
        /\ start_price = lim.ref0

\* a limit Sell placed while Long
C18_Witness ==
    /\ lim.side = SIDE_SELL
    /\ lim.outcome = "placed"
    /\ Truthy(last_entry_price)

\* C19: in one run of the strategy a tick issues at most one market order,
\* and an order attempt is never for the side of the attempt before it.
C19_AttemptsAlternate ==
    /\ (InLoop /\ tick # NoTick) =>
          sent <= tick.sent0 + (IF tick.attempt = "NONE" THEN 0 ELSE 1)
    /\ (tick.attempt # "NONE" /\ tick.prevAtt # "NONE") =>
          tick.attempt # tick.prevAtt

\* a Buy attempted again after a Buy and a failed Sell
C19_Witness ==
    /\ tick.attempt = SIDE_BUY
    /\ tick.prevAtt = SIDE_SELL
    /\ tick.done
    /\ OrderFailed
====
